---- MODULE Spec2Model ----
(***************************************************************************)
(* Model of the Postmark client of src/postmark.go: one PMMail value, the  *)
(* operations a caller applies to it (field writes, AddCustomHeader,       *)
(* AddAttachment, MessageAsJSONPacket, Send) and the two collaborators the *)
(* operations talk to: the file system and the HTTP endpoint.  What the    *)
(* file system and the endpoint answer is drawn from small sets at the     *)
(* step where the code asks them.                                          *)
(***************************************************************************)
EXTENDS Integers, Sequences, FiniteSets, TLC

VARIABLES p, pc, lastOp, ret, att, response, httpCalls, headerLog

vars == <<p, pc, lastOp, ret, att, response, httpCalls, headerLog>>

(* ------------------------------ bounds --------------------------------- *)

MaxHeaders == 2
MaxAttachments == 1

(* ---------------------------- input sets ------------------------------- *)

SizeLimit == 10000000

Strs == {"", "a"}
FieldNames == {"Sender", "ReplyTo", "To", "CC", "BCC", "Subject", "Tag",
               "HTMLBody", "TextBody"}
HeaderNames == {"X-H1"}
HeaderValues == {"1", "2"}
Paths == {"dir/a.txt", "b"}
FileSizes == {SizeLimit, SizeLimit + 1}
StatusCodes == {200, 401, 404, 422, 500, 503}

(* a response body: either the stream fails while it is read, or it is a   *)
(* text; a text is syntactically valid JSON or not, and a valid one is an  *)
(* object whose ErrorCode member is a number, a string, or absent          *)
Bodies ==
    { [readable |-> FALSE, valid |-> FALSE, ec |-> <<>>, Message |-> ""],
      [readable |-> TRUE, valid |-> FALSE, ec |-> <<>>, Message |-> ""],
      [readable |-> TRUE, valid |-> TRUE, ec |-> <<"number", 0>>, Message |-> "OK"],
      [readable |-> TRUE, valid |-> TRUE, ec |-> <<"number", 300>>, Message |-> "Invalid email"],
      [readable |-> TRUE, valid |-> TRUE, ec |-> <<"string", 300>>, Message |-> "Invalid email"],
      [readable |-> TRUE, valid |-> TRUE, ec |-> <<>>, Message |-> "OK"] }

(* ------------------------------ errors --------------------------------- *)

NoErr == [kind |-> "nil", code |-> 0]
Errorf(kind, code) == [kind |-> kind, code |-> code]

(* ------------------------------ types ---------------------------------- *)

header(name, value) == [Name |-> name, Value |-> value]

attachment(name, content, contentType) ==
    [Name |-> name, Content |-> content, ContentType |-> contentType]

Reply == [ErrorCode |-> 0, Message |-> ""]

CreatePMMail(apikey) ==
    [apiKey |-> apikey, customHeaders |-> <<>>, attachments |-> <<>>,
     Sender |-> "", ReplyTo |-> "", To |-> "", CC |-> "", BCC |-> "",
     Subject |-> "", Tag |-> "", HTMLBody |-> "", TextBody |-> ""]

(* --------------------------- AddCustomHeader --------------------------- *)

(* variant: a header of a name already present replaces the earlier entry *)
AddCustomHeader_overwrite(m, name, value) ==
    [m EXCEPT !.customHeaders =
        SelectSeq(m.customHeaders, LAMBDA h : h.Name # name) \o <<header(name, value)>>]

AddCustomHeader(m, name, value) ==
    [m EXCEPT !.customHeaders = Append(m.customHeaders, header(name, value))]

(* ---------------------------- AddAttachment ---------------------------- *)

(* variant: the limit itself is rejected *)
SizeExceeds_inclusive(size) == size >= SizeLimit

SizeExceeds(size) == size > SizeLimit

(* os.FileInfo.Name: the last element of the path *)
BaseName(path) == IF path = "dir/a.txt" THEN "a.txt" ELSE path

(* path.Ext: the suffix from the last dot of the last element *)
Ext(path) == IF path = "dir/a.txt" THEN ".txt" ELSE ""

(* mime.TypeByExtension: "" for an extension it does not know *)
TypeByExtension(ext) == IF ext = ".txt" THEN "text/plain; charset=utf-8" ELSE ""

MimeType(path) ==
    IF TypeByExtension(Ext(path)) = ""
    THEN "application/octet-stream"
    ELSE TypeByExtension(Ext(path))

(* base64.StdEncoding.EncodeToString on n bytes: 4 characters per group of *)
(* 3 bytes, the last group padded with '='                                 *)
EncodeToString(n) ==
    [len |-> 4 * ((n + 2) \div 3), pad |-> (3 - (n % 3)) % 3]

(* the number of bytes a base64 text stands for *)
DecodedLen(content) == (content.len \div 4) * 3 - content.pad

(* ------------------------------ checkValues ---------------------------- *)

(* variant: the subject is looked at before the sender *)
checkValues_reordered(m) ==
    IF m.Subject = "" THEN Errorf("no_subject", 0)
    ELSE IF m.Sender = "" THEN Errorf("no_sender", 0)
    ELSE IF m.To = "" THEN Errorf("no_recipient", 0)
    ELSE IF m.HTMLBody = "" /\ m.TextBody = "" THEN Errorf("no_body", 0)
    ELSE NoErr

(* variant: both bodies are demanded *)
checkValues_bothBodies(m) ==
    IF m.Sender = "" THEN Errorf("no_sender", 0)
    ELSE IF m.To = "" THEN Errorf("no_recipient", 0)
    ELSE IF m.Subject = "" THEN Errorf("no_subject", 0)
    ELSE IF m.HTMLBody = "" \/ m.TextBody = "" THEN Errorf("no_body", 0)
    ELSE NoErr

checkValues(m) ==
    IF m.Sender = "" THEN Errorf("no_sender", 0)
    ELSE IF m.To = "" THEN Errorf("no_recipient", 0)
    ELSE IF m.Subject = "" THEN Errorf("no_subject", 0)
    ELSE IF m.HTMLBody = "" /\ m.TextBody = "" THEN Errorf("no_body", 0)
    ELSE NoErr

(* -------------------------- MessageAsJSONPacket ------------------------ *)

Put(json, cond, key, value) == IF cond THEN (key :> value) @@ json ELSE json

(* variant: the blind-copy list is stored under the key of the copy list *)
json_interface_bccAsCc(m) ==
    LET j0 == [From |-> m.Sender, To |-> m.To, Subject |-> m.Subject]
        j1 == Put(j0, m.ReplyTo # "", "ReplyTo", m.ReplyTo)
        j2 == Put(j1, m.CC # "", "Cc", m.CC)
        j3 == Put(j2, m.BCC # "", "Cc", m.BCC)
        j4 == Put(j3, m.Tag # "", "Tag", m.Tag)
        j5 == Put(j4, m.HTMLBody # "", "HtmlBody", m.HTMLBody)
        j6 == Put(j5, m.TextBody # "", "TextBody", m.TextBody)
        j7 == Put(j6, Len(m.attachments) > 0, "Attachments", m.attachments)
        j8 == Put(j7, Len(m.customHeaders) > 0, "Headers", m.customHeaders)
    IN  j8

json_interface(m) ==
    LET j0 == [From |-> m.Sender, To |-> m.To, Subject |-> m.Subject]
        j1 == Put(j0, m.ReplyTo # "", "ReplyTo", m.ReplyTo)
        j2 == Put(j1, m.CC # "", "Cc", m.CC)
        j3 == Put(j2, m.BCC # "", "Bcc", m.BCC)
        j4 == Put(j3, m.Tag # "", "Tag", m.Tag)
        j5 == Put(j4, m.HTMLBody # "", "HtmlBody", m.HTMLBody)
        j6 == Put(j5, m.TextBody # "", "TextBody", m.TextBody)
        j7 == Put(j6, Len(m.attachments) > 0, "Attachments", m.attachments)
        j8 == Put(j7, Len(m.customHeaders) > 0, "Headers", m.customHeaders)
    IN  j8

(* json.Marshal of a map writes the members in the byte order of the keys *)
KeyOrder == <<"Attachments", "Bcc", "Cc", "From", "Headers", "HtmlBody",
              "ReplyTo", "Subject", "Tag", "TextBody", "To">>

RECURSIVE MarshalFrom(_, _)
MarshalFrom(json, i) ==
    IF i > Len(KeyOrder) THEN <<>>
    ELSE IF KeyOrder[i] \in DOMAIN json
         THEN <<[key |-> KeyOrder[i], value |-> json[KeyOrder[i]]]>>
              \o MarshalFrom(json, i + 1)
         ELSE MarshalFrom(json, i + 1)

Marshal(json) == MarshalFrom(json, 1)

MessageAsJSONPacket(m) ==
    IF checkValues(m) # NoErr
    THEN [data |-> <<>>, err |-> checkValues(m)]
    ELSE [data |-> Marshal(json_interface(m)), err |-> NoErr]

(* --------------------------------- Send -------------------------------- *)

(* variant: the case of status 422 is missing *)
HTTPStatusError_no422(status) ==
    IF status = 401 THEN Errorf("http", status)
    ELSE IF status = 404 THEN Errorf("http", status)
    ELSE IF status = 500 THEN Errorf("http", status)
    ELSE NoErr

HTTPStatusError(status) ==
    IF status = 401 THEN Errorf("http", status)
    ELSE IF status = 404 THEN Errorf("http", status)
    ELSE IF status = 422 THEN Errorf("http", status)
    ELSE IF status = 500 THEN Errorf("http", status)
    ELSE NoErr

(* json.Unmarshal into a fresh Reply: a text that is not valid JSON leaves *)
(* the Reply untouched; a member of the wrong type is skipped and the      *)
(* other members are still stored; the error it returns is dropped         *)
Unmarshal(body, reply) ==
    IF ~body.valid THEN reply
    ELSE [ErrorCode |-> IF body.ec # <<>> /\ body.ec[1] = "number"
                        THEN body.ec[2] ELSE reply.ErrorCode,
          Message |-> body.Message]

(* variant: a remote error code drops the reply *)
ReplyResult_nilOnError(reply) ==
    IF reply.ErrorCode # 0
    THEN [reply |-> <<>>, err |-> Errorf("remote", reply.ErrorCode)]
    ELSE [reply |-> <<reply>>, err |-> NoErr]

ReplyResult(reply) ==
    IF reply.ErrorCode # 0
    THEN [reply |-> <<reply>>, err |-> Errorf("remote", reply.ErrorCode)]
    ELSE [reply |-> <<reply>>, err |-> NoErr]

(* Send from the answer of http.DefaultClient.Do on *)
SendResult(resp) ==
    IF HTTPStatusError(resp.status) # NoErr
    THEN [reply |-> <<>>, err |-> HTTPStatusError(resp.status)]
    ELSE IF ~resp.body.readable
    THEN [reply |-> <<>>, err |-> Errorf("read", 0)]
    ELSE ReplyResult(Unmarshal(resp.body, Reply))

(* ------------------------------ the state ------------------------------ *)

NoRet == [data |-> <<>>, err |-> NoErr, reply |-> <<>>]
(* the locals of the AddAttachment call: the path while the call runs, and *)
(* what os.Stat answered and whether the file was opened                   *)
NoAtt == [path |-> "", statOK |-> FALSE, size |-> 0, opened |-> FALSE]

Init ==
    /\ p = CreatePMMail("1234567")
    /\ pc = "idle"
    /\ lastOp = "create"
    /\ ret = NoRet
    /\ att = NoAtt
    /\ response = <<>>
    /\ httpCalls = 0
    /\ headerLog = <<>>

(* the caller assigns a new value to one of the exported string fields *)
SetField ==
    /\ pc = "idle"
    /\ \E f \in FieldNames, v \in Strs :
          /\ p[f] # v
          /\ p' = [p EXCEPT ![f] = v]
    /\ lastOp' = "set"
    /\ ret' = NoRet /\ att' = NoAtt /\ response' = <<>> /\ httpCalls' = 0
    /\ UNCHANGED <<pc, headerLog>>

AddCustomHeaderCall ==
    /\ pc = "idle"
    /\ Len(p.customHeaders) < MaxHeaders
    /\ \E name \in HeaderNames, value \in HeaderValues :
          /\ p' = AddCustomHeader(p, name, value)
          /\ headerLog' = Append(headerLog, header(name, value))
    /\ lastOp' = "header"
    /\ ret' = NoRet /\ att' = NoAtt /\ response' = <<>> /\ httpCalls' = 0
    /\ UNCHANGED pc

(* AddAttachment up to the size check: os.Stat answers with an error or    *)
(* with the size the file has now                                          *)
AddAttachmentStat ==
    /\ pc = "idle"
    /\ Len(p.attachments) < MaxAttachments
    /\ lastOp' = "attach"
    /\ response' = <<>> /\ httpCalls' = 0
    /\ UNCHANGED <<p, headerLog>>
    /\ \E path \in Paths :
          \/ /\ att' = NoAtt
             /\ ret' = [NoRet EXCEPT !.err = Errorf("stat", 0)]
             /\ pc' = "idle"
          \/ \E size \in FileSizes :
                IF SizeExceeds(size)
                THEN /\ att' = [NoAtt EXCEPT !.statOK = TRUE, !.size = size]
                     /\ ret' = [NoRet EXCEPT !.err = Errorf("size", size)]
                     /\ pc' = "idle"
                ELSE /\ att' = [NoAtt EXCEPT !.path = path, !.statOK = TRUE,
                                            !.size = size]
                     /\ ret' = NoRet
                     /\ pc' = "attach_open"

(* AddAttachment from os.Open on: the file is opened and read to its end   *)
(* as it is now, which other processes may have changed since os.Stat      *)
AddAttachmentRead ==
    /\ pc = "attach_open"
    /\ pc' = "idle"
    /\ UNCHANGED <<lastOp, response, httpCalls, headerLog>>
    /\ \/ /\ att' = [att EXCEPT !.path = ""]
          /\ ret' = [NoRet EXCEPT !.err = Errorf("open", 0)]
          /\ p' = p
       \/ /\ att' = [att EXCEPT !.path = "", !.opened = TRUE]
          /\ ret' = [NoRet EXCEPT !.err = Errorf("read", 0)]
          /\ p' = p
       \/ \E n \in FileSizes :
             /\ att' = [att EXCEPT !.path = "", !.opened = TRUE]
             /\ ret' = NoRet
             /\ p' = [p EXCEPT !.attachments =
                        Append(@, attachment(BaseName(att.path),
                                             EncodeToString(n),
                                             MimeType(att.path)))]

(* variant: the header list is consumed by the serialisation *)
MessageAsJSONPacketCall_consuming ==
    /\ pc = "idle"
    /\ lastOp' = "build"
    /\ ret' = [NoRet EXCEPT !.data = MessageAsJSONPacket(p).data,
                            !.err = MessageAsJSONPacket(p).err]
    /\ att' = NoAtt /\ response' = <<>> /\ httpCalls' = 0
    /\ p' = [p EXCEPT !.customHeaders = <<>>]
    /\ UNCHANGED <<pc, headerLog>>

MessageAsJSONPacketCall ==
    /\ pc = "idle"
    /\ lastOp' = "build"
    /\ ret' = [NoRet EXCEPT !.data = MessageAsJSONPacket(p).data,
                            !.err = MessageAsJSONPacket(p).err]
    /\ att' = NoAtt /\ response' = <<>> /\ httpCalls' = 0
    /\ UNCHANGED <<p, pc, headerLog>>

(* Send up to the HTTP exchange *)
SendBegin ==
    /\ pc = "idle"
    /\ lastOp' = "send"
    /\ att' = NoAtt /\ response' = <<>> /\ httpCalls' = 0
    /\ UNCHANGED <<p, headerLog>>
    /\ IF MessageAsJSONPacket(p).err # NoErr
       THEN /\ ret' = [NoRet EXCEPT !.err = MessageAsJSONPacket(p).err]
            /\ pc' = "idle"
       ELSE /\ ret' = [NoRet EXCEPT !.data = MessageAsJSONPacket(p).data]
            /\ pc' = "send_do"

(* http.DefaultClient.Do and the rest of Send *)
SendDo ==
    /\ pc = "send_do"
    /\ pc' = "idle"
    /\ httpCalls' = httpCalls + 1
    /\ UNCHANGED <<p, lastOp, att, headerLog>>
    /\ \/ /\ response' = <<>>
          /\ ret' = [ret EXCEPT !.err = Errorf("transport", 0)]
       \/ \E status \in StatusCodes, body \in Bodies :
             LET resp == [status |-> status, body |-> body] IN
             /\ response' = <<resp>>
             /\ ret' = [ret EXCEPT !.reply = SendResult(resp).reply,
                                   !.err = SendResult(resp).err]

Next ==
    \/ SetField
    \/ AddCustomHeaderCall
    \/ AddAttachmentStat
    \/ AddAttachmentRead
    \/ MessageAsJSONPacketCall
    \/ SendBegin
    \/ SendDo

Spec == Init /\ [][Next]_vars

(* ============================ properties =============================== *)

Keys(data) == {data[i].key : i \in DOMAIN data}

(* the value stored under a key of a payload, <<>> when the key is absent *)
RECURSIVE ValueFrom(_, _, _)
ValueFrom(data, key, i) ==
    IF i > Len(data) THEN <<>>
    ELSE IF data[i].key = key THEN data[i].value
    ELSE ValueFrom(data, key, i + 1)

RequiredKeys == {"From", "To", "Subject"}

OptionalFields == {"ReplyTo", "CC", "BCC", "Tag", "HTMLBody", "TextBody"}

MappedKey(f) ==
    CASE f = "ReplyTo" -> "ReplyTo"
      [] f = "CC" -> "Cc"
      [] f = "BCC" -> "Bcc"
      [] f = "Tag" -> "Tag"
      [] f = "HTMLBody" -> "HtmlBody"
      [] f = "TextBody" -> "TextBody"

(* the four required-field conditions, in the order of the specification *)
Unmet(m) == <<m.Sender = "", m.To = "", m.Subject = "",
              m.HTMLBody = "" /\ m.TextBody = "">>

ValidationErrors == <<"no_sender", "no_recipient", "no_subject", "no_body">>

SomeUnmet(m) == \E i \in 1..4 : Unmet(m)[i]

FirstUnmet(m) == CHOOSE i \in 1..4 : Unmet(m)[i] /\ \A j \in 1..(i - 1) : ~Unmet(m)[j]

AllOptionalAbsent(m) ==
    /\ \A f \in OptionalFields : m[f] = ""
    /\ m.attachments = <<>>
    /\ m.customHeaders = <<>>

BuildDone == lastOp = "build"
SendDone == lastOp = "send" /\ pc = "idle"
MappedStatuses == {401, 404, 422, 500}

(* C1: when a required-field condition is unmet, MessageAsJSONPacket and   *)
(* Send fail with the error of the first unmet condition in the order      *)
(* sender, recipient, subject, body; Send returns a nil Reply and issues   *)
(* no HTTP request.                                                        *)
C1_FirstUnmetValidationError ==
    /\ (pc = "send_do" => ~SomeUnmet(p))
    /\ ((BuildDone \/ SendDone) /\ SomeUnmet(p)) =>
          /\ ret.err = Errorf(ValidationErrors[FirstUnmet(p)], 0)
          /\ ret.data = <<>>
          /\ ret.reply = <<>>
          /\ httpCalls = 0
          /\ response = <<>>

C1_Witness ==
    /\ SendDone
    /\ p.Sender # "" /\ p.To = "" /\ p.Subject = ""
    /\ ret.err.kind = "no_recipient"

(* C2: a message whose sender, recipient and subject are set and that has  *)
(* a body builds a payload without error, whatever headers and attachments *)
(* it carries; MessageAsJSONPacket fails only when a required-field        *)
(* condition is unmet.                                                     *)
C2_ValidMessageBuilds ==
    BuildDone =>
        /\ (~SomeUnmet(p) => ret.err = NoErr /\ ret.data # <<>>)
        /\ (ret.err # NoErr => SomeUnmet(p))

C2_Witness ==
    /\ BuildDone
    /\ ~SomeUnmet(p)
    /\ p.HTMLBody = ""
    /\ Len(p.customHeaders) > 0
    /\ Len(p.attachments) > 0
    /\ ret.err = NoErr

(* C3: a response of status 401, 404, 422 or 500 makes Send return a nil   *)
(* Reply and an error carrying the status, whatever the body; any other    *)
(* status is no failure by itself and the body is decoded into a Reply.    *)
C3_StatusMapping ==
    (SendDone /\ response # <<>>) =>
        IF response[1].status \in MappedStatuses
        THEN /\ ret.reply = <<>>
             /\ ret.err = Errorf("http", response[1].status)
        ELSE /\ ret.err.kind # "http"
             /\ response[1].body.readable =>
                   /\ ret.reply # <<>>
                   /\ response[1].body.valid =>
                         ret.reply[1].Message = response[1].body.Message

C3_Witness ==
    /\ SendDone
    /\ response # <<>>
    /\ response[1].status = 422
    /\ response[1].body.ec = <<"number", 0>>
    /\ ret.reply = <<>>
    /\ ret.err.code = 422

(* the error code a body decodes to *)
DecodedErrorCode(body) ==
    IF body.valid /\ body.ec # <<>> /\ body.ec[1] = "number" THEN body.ec[2] ELSE 0

(* C4: for a status other than 401, 404, 422, 500, a body decoding to a    *)
(* non-zero ErrorCode makes Send return both a Reply holding the code and  *)
(* an error; a decoded ErrorCode of 0 gives the Reply and a nil error.     *)
C4_ReplyTogetherWithError ==
    (/\ SendDone
     /\ response # <<>>
     /\ response[1].status \notin MappedStatuses
     /\ response[1].body.readable) =>
        /\ ret.reply # <<>>
        /\ ret.reply[1].ErrorCode = DecodedErrorCode(response[1].body)
        /\ IF DecodedErrorCode(response[1].body) # 0
           THEN ret.err = Errorf("remote", DecodedErrorCode(response[1].body))
           ELSE ret.err = NoErr

C4_Witness ==
    /\ SendDone
    /\ response # <<>>
    /\ response[1].status = 200
    /\ ret.reply # <<>>
    /\ ret.reply[1].ErrorCode = 300
    /\ ret.err.kind = "remote"

(* the remote service accepted the message: a success status and a body    *)
(* that decodes without error to a Reply reporting error code 0            *)
Accepted(resp) ==
    /\ resp.status < 400
    /\ resp.body.readable
    /\ resp.body.valid
    /\ (resp.body.ec = <<>> \/ resp.body.ec = <<"number", 0>>)

(* C5: Send never masks a failure as success: it returns a nil error only  *)
(* when the message was accepted by the remote service, and makes at most  *)
(* one HTTP attempt per invocation.                                        *)
C5_NeverMasksFailure ==
    /\ httpCalls <= 1
    /\ (SendDone /\ ret.err = NoErr) => (response # <<>> /\ Accepted(response[1]))

C7_OversizeRejected ==
    [][(pc = "idle" /\ lastOp' = "attach" /\ att'.statOK) =>
          /\ att'.size > 10000000 =>
                /\ pc' = "idle"
                /\ ret'.err = Errorf("size", att'.size)
                /\ ~att'.opened
                /\ p'.attachments = p.attachments
                /\ (p.attachments = <<>> =>
                       "Attachments" \notin Keys(MessageAsJSONPacket(p').data))
          /\ att'.size = 10000000 =>
                /\ pc' = "attach_open"
                /\ ret'.err = NoErr]_vars

C7_Witness ==
    /\ lastOp = "attach"
    /\ pc = "idle"
    /\ att.statOK
    /\ att.size = 10000001
    /\ ret.err.kind = "size"
    /\ p.attachments = <<>>

(* C8: every attachment of the message is the encoding of at most          *)
(* 10,000,000 bytes, whatever happens to the files around the calls.       *)
C8_AttachmentsWithinLimit ==
    \A i \in DOMAIN p.attachments :
        DecodedLen(p.attachments[i].Content) <= 10000000

(* C9: the Headers array of a built payload has one entry per              *)
(* AddCustomHeader call, in call order, repeated names included.           *)
C9_HeadersInCallOrder ==
    (BuildDone /\ ret.err = NoErr) =>
        /\ ValueFrom(ret.data, "Headers", 1) = headerLog
        /\ ("Headers" \in Keys(ret.data) <=> headerLog # <<>>)

C9_Witness ==
    /\ BuildDone
    /\ ret.err = NoErr
    /\ Len(headerLog) = 2
    /\ headerLog[1].Name = headerLog[2].Name
    /\ headerLog[1].Value # headerLog[2].Value
    /\ ValueFrom(ret.data, "Headers", 1) = headerLog

(* C10: MessageAsJSONPacket changes nothing of the message, whether it     *)
(* succeeds or fails, and a call that follows another with no mutation in  *)
(* between returns the same result.                                        *)
C10_BuildIsPure ==
    [][lastOp' = "build" =>
          /\ p' = p
          /\ (lastOp = "build" => ret' = ret)
          /\ ret'.data = MessageAsJSONPacket(p).data
          /\ ret'.err = MessageAsJSONPacket(p).err]_vars

C10_Witness ==
    /\ BuildDone
    /\ ret.data # <<>>
    /\ Len(p.customHeaders) > 0
    /\ Len(p.attachments) > 0
    /\ p.Tag # ""

====
